---- MODULE Spec2Model ----
(***************************************************************************)
(* A model of solve.js: decoding of base-coded values, exact fractions     *)
(* over BigInt, Lagrange interpolation at x = 0 and the selection of the   *)
(* k points in main.                                                       *)
(*                                                                         *)
(* A thrown Error is modelled as the record [error |-> message]; a         *)
(* function that throws returns that record and every caller checks for    *)
(* it where the exception would propagate.  A function that returns a      *)
(* string or a BigInt returns it as [value |-> v].                         *)
(***************************************************************************)
EXTENDS Integers, Sequences, FiniteSets, TLC

VARIABLES
    pc,        \* the position of the run
    valueStr,  \* decodeValueToBigInt: its first argument
    baseStr,   \* decodeValueToBigInt: its second argument
    decoded,   \* decodeValueToBigInt: what it returned or threw
    data,      \* main: the parsed JSON
    ki,        \* main: how many of Object.keys(data) the loop has been through
    entries,   \* main: the array of {x, y} collected
    chosen,    \* main: the array of {x, y} passed to lagrangeAtZero
    f0,        \* main: const f0 = lagrangeAtZero(chosen)
    secret,    \* main: const secret = f0.toIntegerStringIfExact()
    exit,      \* what the run printed, and how it ended
    call,      \* the Fraction operation applied last, with its operands
    ref        \* the object an input was derived from, when it was (else None)

decodeVars == <<valueStr, baseStr, decoded>>
mainVars == <<data, ki, entries>>

vars == <<pc, valueStr, baseStr, decoded, data, ki, entries, chosen, f0, secret,
          exit, call, ref>>

None == [none |-> TRUE]

\* throw new Error(msg)
Throw(msg) == [error |-> msg]

\* return v
Return(v) == [value |-> v]

IsError(v) == "error" \in DOMAIN v

Abs(a) == IF a < 0 THEN -a ELSE a

\* BigInt division: the quotient is truncated towards zero
BigIntDiv(a, b) ==
    IF (a < 0) = (b < 0) THEN Abs(a) \div Abs(b) ELSE -(Abs(a) \div Abs(b))

\* BigInt remainder: the sign follows the dividend
BigIntRem(a, b) == a - b * BigIntDiv(a, b)

RECURSIVE GcdLoop(_, _)
GcdLoop(a, b) == IF b # 0 THEN GcdLoop(b, BigIntRem(a, b)) ELSE a

bigGcd(a, b) == GcdLoop(Abs(a), Abs(b))

\* the sign of a negative denominator not moved to the numerator
FractionSignKept(num, den) ==
    IF den = 0 THEN Throw("Denominator zero")
    ELSE LET g == bigGcd(num, den)
         IN  [num |-> BigIntDiv(num, g), den |-> BigIntDiv(den, g)]

\* new Fraction(num, den)
Fraction(num, den) ==
    IF den = 0 THEN Throw("Denominator zero")
    ELSE LET n1 == IF den < 0 THEN -num ELSE num
             d1 == IF den < 0 THEN -den ELSE den
             g  == bigGcd(n1, d1)
         IN  [num |-> BigIntDiv(n1, g), den |-> BigIntDiv(d1, g)]

\* the numerators added without bringing them to the common denominator
addNumerators(this, other) ==
    Fraction(this.num + other.num, this.den * other.den)

add(this, other) ==
    Fraction(this.num * other.den + other.num * this.den, this.den * other.den)

sub(this, other) ==
    Fraction(this.num * other.den - other.num * this.den, this.den * other.den)

mul(this, other) ==
    Fraction(this.num * other.num, this.den * other.den)

div(this, other) ==
    IF other.num = 0 THEN Throw("Division by zero fraction")
    ELSE Fraction(this.num * other.den, this.den * other.num)

\* BigInt.prototype.toString(): the decimal digits, most significant first, as
\* code points ('0' is 48), after a '-' (45) for a negative value
RECURSIVE DecimalDigits(_)
DecimalDigits(n) ==
    IF n < 10 THEN <<48 + n>> ELSE Append(DecimalDigits(n \div 10), 48 + (n % 10))

BigIntToString(n) == IF n < 0 THEN <<45>> \o DecimalDigits(-n) ELSE DecimalDigits(n)

\* the quotient returned whether or not the division is exact
toIntegerStringTruncated(this) ==
    Return(BigIntToString(BigIntDiv(this.num, this.den)))

toIntegerStringIfExact(this) ==
    IF this.den = 1 THEN Return(BigIntToString(this.num))
    ELSE IF BigIntRem(this.num, this.den) = 0
         THEN Return(BigIntToString(BigIntDiv(this.num, this.den)))
         ELSE Throw("Result is not integer")

\* WhiteSpace and LineTerminator code points, which String.prototype.trim strips
IsWhiteSpace(c) ==
    c \in {9, 10, 11, 12, 13, 32, 160, 5760, 8232, 8233, 8239, 8287, 12288, 65279}
        \cup 8192..8202

\* String.prototype.trim() on a sequence of code points
RECURSIVE trim(_)
trim(s) ==
    IF s = <<>> THEN s
    ELSE IF IsWhiteSpace(Head(s)) THEN trim(Tail(s))
    ELSE IF IsWhiteSpace(s[Len(s)]) THEN trim(SubSeq(s, 1, Len(s) - 1))
    ELSE s

\* the lower case of one code point: 'A'-'Z' (65-90) to 'a'-'z'; beyond ASCII,
\* the KELVIN SIGN U+212A (8490) to 'k' (107) and U+0130 (304) to 'i'
\* followed by U+0307 (775), the only code points whose lower case has a
\* character of a-z; every other code point modelled is its own lower case
LowerCaseOf(c) ==
    IF c >= 65 /\ c <= 90 THEN <<c + 32>>
    ELSE IF c = 8490 THEN <<107>>
    ELSE IF c = 304 THEN <<105, 775>>
    ELSE <<c>>

\* String.prototype.toLowerCase()
RECURSIVE toLowerCase(_)
toLowerCase(s) ==
    IF s = <<>> THEN s ELSE LowerCaseOf(Head(s)) \o toLowerCase(Tail(s))

IsDecimalDigit(c) == c >= 48 /\ c <= 57

AllDecimalDigits(s) == \A i \in 1..Len(s) : IsDecimalDigit(s[i])

\* the value of a string of decimal digits (0 for the empty string)
RECURSIVE DigitsValue(_)
DigitsValue(s) ==
    IF s = <<>> THEN 0
    ELSE 10 * DigitsValue(SubSeq(s, 1, Len(s) - 1)) + (s[Len(s)] - 48)

\* a Number that is an integer, and one that is not (NaN, or with a fraction)
Num(v) == [integer |-> TRUE, val |-> v]
NotInteger == [integer |-> FALSE]

\* Number(str) for the strings made of white space, '+' (43), '-' (45), '.'
\* (46) and decimal digits, and NaN for a string with any other character
\* modelled: an empty or blank string is 0, then an optional sign, digits,
\* and an optional '.' with digits, at least one digit in all
ToNumber(str) ==
    LET t == trim(str)
        signed == t # <<>> /\ Head(t) \in {43, 45}
        u == IF signed THEN Tail(t) ELSE t
        dots == {i \in 1..Len(u) : u[i] = 46}
        whole == IF dots = {} THEN u ELSE SubSeq(u, 1, (CHOOSE i \in dots : TRUE) - 1)
        part == IF dots = {} THEN <<>>
                ELSE SubSeq(u, (CHOOSE i \in dots : TRUE) + 1, Len(u))
        v == DigitsValue(whole)
    IN  IF t = <<>> THEN Num(0)
        ELSE IF \/ Cardinality(dots) > 1
                \/ ~AllDecimalDigits(whole) \/ ~AllDecimalDigits(part)
                \/ Len(whole) + Len(part) = 0
             THEN NotInteger
        ELSE IF \E i \in 1..Len(part) : part[i] # 48 THEN NotInteger
        ELSE Num(IF signed /\ Head(t) = 45 THEN -v ELSE v)

\* Number.isInteger(base) && base >= 2 && base <= 36
SupportedBase(base) == base.integer /\ base.val >= 2 /\ base.val <= 36

\* 'a' taken to be at 86, one short
DigitValueShort(ch) == IF ch >= 48 /\ ch <= 57 THEN ch - 48 ELSE ch - 86

\* ch.charCodeAt(0) - 48 for '0'-'9', ch.charCodeAt(0) - 87 for 'a'-'z'
DigitValue(ch) == IF ch >= 48 /\ ch <= 57 THEN ch - 48 ELSE ch - 87

\* digit >= base was written digit > base
DigitAboveBase(digit, base) == digit > base

\* if (digit >= base) throw ...
DigitNotValid(digit, base) == digit >= base

\* the loop over the characters of s, from the i-th on
RECURSIVE DecodeLoop(_, _, _, _)
DecodeLoop(s, i, acc, base) ==
    IF i > Len(s) THEN Return(acc)
    ELSE LET ch == s[i]
         IN  IF ~(ch >= 48 /\ ch <= 57) /\ ~(ch >= 97 /\ ch <= 122)
             THEN [error |-> "Invalid digit in value", ch |-> ch]
             ELSE LET digit == DigitValue(ch)
                  IN  IF DigitNotValid(digit, base)
                      THEN [error |-> "Digit not valid for base", ch |-> ch,
                            base |-> base]
                      ELSE DecodeLoop(s, i + 1, acc * base + digit, base)

decodeValueToBigInt(value, base) ==
    IF ~SupportedBase(ToNumber(base))
    THEN [error |-> "Unsupported base", base |-> base]
    ELSE DecodeLoop(toLowerCase(trim(value)), 1, 0, ToNumber(base).val)

\* the check for a duplicate x left out
IsDuplicateUnchecked(denom) == FALSE

\* if (denom === 0n) throw ...
IsDuplicate(denom) == denom = 0

\* the loop over j of lagrangeAtZero, from j on (indices from 1)
RECURSIVE InnerLoop(_, _, _, _)
InnerLoop(pts, i, j, numerator) ==
    IF j > Len(pts) THEN numerator
    ELSE IF j = i THEN InnerLoop(pts, i, j + 1, numerator)
    ELSE LET negXj == -pts[j].x
             denom == pts[i].x - pts[j].x
         IN  IF IsDuplicate(denom) THEN Throw("Duplicate x values encountered")
             ELSE LET factor == Fraction(negXj, denom)
                  IN  IF IsError(factor) THEN factor
                      ELSE InnerLoop(pts, i, j + 1, mul(numerator, factor))

\* the loop over i of lagrangeAtZero, from i on
RECURSIVE OuterLoop(_, _, _)
OuterLoop(pts, i, result) ==
    IF i > Len(pts) THEN result
    ELSE LET numerator == InnerLoop(pts, i, 1, Fraction(pts[i].y, 1))
         IN  IF IsError(numerator) THEN numerator
             ELSE OuterLoop(pts, i + 1, add(result, numerator))

\* a slip in the first index of the loop over i: the first point's term is lost
lagrangeFromSecond(pts) == OuterLoop(pts, 2, Fraction(0, 1))

lagrangeAtZero(pts) == OuterLoop(pts, 1, Fraction(0, 1))

\* BigInt(key) for the strings made of white space, '+', '-' and decimal
\* digits, and the SyntaxError for a string with any other character modelled
BigIntOf(key) ==
    LET t == trim(key)
        signed == t # <<>> /\ Head(t) \in {43, 45}
        u == IF signed THEN Tail(t) ELSE t
    IN  IF t = <<>> THEN Return(0)
        ELSE IF u = <<>> \/ ~AllDecimalDigits(u)
             THEN Throw("Cannot convert to a BigInt")
        ELSE Return(IF signed /\ Head(t) = 45 THEN -DigitsValue(u) ELSE DigitsValue(u))

\* an array index: "0", or digits with no leading zero (the keys modelled are
\* far below 2^32 - 1)
IsArrayIndex(key) ==
    /\ key # <<>> /\ AllDecimalDigits(key)
    /\ (key[1] = 48 => Len(key) = 1)

\* the properties whose key is an array index (or, for FALSE, is not), in
\* their order
RECURSIVE SelectKeys(_, _)
SelectKeys(seq, index) ==
    IF seq = <<>> THEN <<>>
    ELSE IF IsArrayIndex(Head(seq).key) = index
         THEN <<Head(seq)>> \o SelectKeys(Tail(seq), index)
         ELSE SelectKeys(Tail(seq), index)

\* a before b: (a.x < b.x ? -1 : (a.x > b.x ? 1 : 0)) is negative
Before(a, b) == a.x < b.x

\* e put into the sorted seq after every element that is not after it
RECURSIVE Insert(_, _)
Insert(seq, e) ==
    IF seq = <<>> THEN <<e>>
    ELSE IF Before(e, Head(seq)) THEN <<e>> \o seq
    ELSE <<Head(seq)>> \o Insert(Tail(seq), e)

\* Array.prototype.sort with the comparator of main: a stable sort
RECURSIVE SortByX(_)
SortByX(seq) ==
    IF seq = <<>> THEN <<>>
    ELSE Insert(SortByX(SubSeq(seq, 1, Len(seq) - 1)), seq[Len(seq)])

\* the sort left out: the entries stay in the order of Object.keys
Unsorted(seq) == seq

\* entries.sort(...)
SortEntries(seq) == SortByX(seq)

\* the properties of data other than "keys" in the order of Object.keys: the
\* array indices in ascending order, then the other keys in the order of
\* their insertion
ObjectKeys(props) ==
    LET idx == SelectKeys(props, TRUE)
        tagged == [i \in 1..Len(idx) |-> [x |-> DigitsValue(idx[i].key), prop |-> idx[i]]]
        sorted == SortByX(tagged)
    IN  [i \in 1..Len(idx) |-> sorted[i].prop] \o SelectKeys(props, FALSE)

\* the count compared with the n declared instead of k
FewerThanDeclared(count, n, k) == count < n

\* if (entries.length < k)
NotEnough(count, n, k) == count < k

----------------------------------------------------------------------------
(* The try block of main, on every array of points.                        *)

MaxK == 3

XValues == {-1, 0, 1, 3}
YValues == {-1, 0, 2}
Coefficients == {-1, 0, 2}

Point(x, y) == [x |-> x, y |-> y]

\* P(x) for P = c[1] + c[2] x + c[3] x^2 + ..., by Horner's rule from c[i] on
RECURSIVE Horner(_, _, _)
Horner(c, i, x) == IF i > Len(c) THEN 0 ELSE c[i] + x * Horner(c, i + 1, x)

Eval(c, x) == Horner(c, 1, x)

\* the points are arbitrary, or sampled from a polynomial with k coefficients
InitTry ==
    /\ pc = "try"
    /\ \E k \in 1..MaxK :
         \/ /\ chosen \in [1..k -> {Point(x, y) : x \in XValues, y \in YValues}]
            /\ ref = None
         \/ \E c \in [1..k -> Coefficients], xs \in [1..k -> XValues] :
              /\ chosen = [i \in 1..k |-> Point(xs[i], Eval(c, xs[i]))]
              /\ ref = [poly |-> c]
    /\ f0 = None
    /\ secret = None
    /\ exit = None
    /\ call = None
    /\ valueStr = None /\ baseStr = None /\ decoded = None
    /\ data = None /\ ki = 0 /\ entries = <<>>

\* an Error that nothing catches: node prints it and exits with the code 1
Uncaught(msg) == [stderr |-> <<"Uncaught Error:", msg>>, code |-> 1]

IsUncaught(e) == "stderr" \in DOMAIN e /\ e.stderr[1] = "Uncaught Error:"

\* console.error("Error computing secret:", e.message); process.exit(1)
CaughtError(msg) == [stderr |-> <<"Error computing secret:", msg>>, code |-> 1]

\* const f0 = lagrangeAtZero(chosen), and the catch of what it throws
Interpolate ==
    /\ pc = "try"
    /\ LET r == lagrangeAtZero(chosen)
       IN  IF IsError(r)
           THEN /\ pc' = "exit"
                /\ exit' = CaughtError(r.error)
                /\ f0' = f0
           ELSE /\ pc' = "secret"
                /\ f0' = r
                /\ exit' = exit
    /\ UNCHANGED <<chosen, secret, call, ref, decodeVars, mainVars>>

\* const secret = f0.toIntegerStringIfExact(); console.log(secret)
ToInteger ==
    /\ pc = "secret"
    /\ LET r == toIntegerStringIfExact(f0)
       IN  IF IsError(r)
           THEN /\ exit' = CaughtError(r.error)
                /\ secret' = secret
           ELSE /\ exit' = [stdout |-> r.value, code |-> 0]
                /\ secret' = r.value
    /\ pc' = "exit"
    /\ UNCHANGED <<chosen, f0, call, ref, decodeVars, mainVars>>

NextTry == Interpolate \/ ToInteger

SpecTry == InitTry /\ [][NextTry]_vars

----------------------------------------------------------------------------
(* main, from the parsed JSON to the exit of the process.                  *)

MaxProps == 3

\* "1", "2", "01", "-1" and "x"
PropertyKeys == {<<49>>, <<50>>, <<48, 49>>, <<45, 49>>, <<120>>}

\* 4 in base 10, 111 in base 2, 12 in base 2 (no such digit), and an object
\* with no value
PropertyValues ==
    {[base |-> <<49, 48>>, value |-> <<52>>],
     [base |-> <<50>>, value |-> <<49, 49, 49>>],
     [base |-> <<50>>, value |-> <<49, 50>>],
     [base |-> <<49, 48>>]}

\* data.keys: k of 0..MaxK with n = 4, and a k with n = 0, n not an integer,
\* k not an integer, or no keys at all
KeysValues ==
    {[n |-> Num(4), k |-> Num(k)] : k \in 0..MaxK}
        \cup {[n |-> Num(0), k |-> Num(2)], [n |-> NotInteger, k |-> Num(2)],
              [n |-> Num(4), k |-> NotInteger], None}

\* the objects of at most MaxProps properties besides "keys", each key once,
\* in every order of insertion
Init ==
    /\ pc = "main"
    /\ \E len \in 0..MaxProps :
         \E keys \in [1..len -> PropertyKeys], objs \in [1..len -> PropertyValues] :
             /\ \A i, j \in 1..len : i # j => keys[i] # keys[j]
             /\ \E meta \in KeysValues :
                    data = [keys |-> meta,
                            props |-> [i \in 1..len |-> [key |-> keys[i], obj |-> objs[i]]]]
    /\ ki = 0 /\ entries = <<>>
    /\ chosen = <<>> /\ f0 = None /\ secret = None
    /\ exit = None /\ call = None /\ ref = None
    /\ valueStr = None /\ baseStr = None /\ decoded = None

MissingKeys == [stderr |-> <<"Invalid JSON: missing keys object">>, code |-> 1]
InvalidKeys == [stderr |-> <<"Invalid keys.n or keys.k">>, code |-> 1]
NotEnoughPoints(have, need) ==
    [stderr |-> "Not enough points provided", have |-> have, need |-> need, code |-> 1]

\* the checks of data.keys, keys.n and keys.k
CheckKeys ==
    /\ pc = "main"
    /\ IF data.keys = None
       THEN pc' = "exit" /\ exit' = MissingKeys
       ELSE IF ~data.keys.n.integer \/ ~data.keys.k.integer \/ data.keys.k.val <= 0
            THEN pc' = "exit" /\ exit' = InvalidKeys
            ELSE pc' = "collect" /\ exit' = exit
    /\ UNCHANGED <<data, ki, entries, chosen, f0, secret, call, ref, decodeVars>>

\* one turn of the loop over Object.keys(data), for a key other than "keys"
\* (which the loop skips): the entry is skipped, or pushed, or BigInt or
\* decodeValueToBigInt throws and nothing catches it
CollectEntry ==
    /\ pc = "collect"
    /\ ki < Len(data.props)
    /\ LET prop == ObjectKeys(data.props)[ki + 1]
           x == BigIntOf(prop.key)
           y == decodeValueToBigInt(prop.obj.value, prop.obj.base)
       IN  IF ~({"base", "value"} \subseteq DOMAIN prop.obj)
           THEN pc' = pc /\ exit' = exit /\ entries' = entries
           ELSE IF IsError(x)
                THEN pc' = "exit" /\ exit' = Uncaught(x.error) /\ entries' = entries
           ELSE IF IsError(y)
                THEN pc' = "exit" /\ exit' = Uncaught(y.error) /\ entries' = entries
           ELSE /\ pc' = pc /\ exit' = exit
                /\ entries' = Append(entries, [x |-> x.value, y |-> y.value,
                                               rawKey |-> prop.key])
    /\ ki' = ki + 1
    /\ UNCHANGED <<data, chosen, f0, secret, call, ref, decodeVars>>

\* if (entries.length < k) ... process.exit(1)
CheckCount ==
    /\ pc = "collect"
    /\ ki = Len(data.props)
    /\ IF NotEnough(Len(entries), data.keys.n.val, data.keys.k.val)
       THEN pc' = "exit" /\ exit' = NotEnoughPoints(Len(entries), data.keys.k.val)
       ELSE pc' = "sort" /\ exit' = exit
    /\ UNCHANGED <<data, ki, entries, chosen, f0, secret, call, ref, decodeVars>>

\* entries.sort(...); const chosen = entries.slice(0, k).map(...)
SortAndChoose ==
    /\ pc = "sort"
    /\ entries' = SortEntries(entries)
    /\ chosen' = [i \in 1..data.keys.k.val |-> Point(entries'[i].x, entries'[i].y)]
    /\ pc' = "try"
    /\ UNCHANGED <<data, ki, f0, secret, exit, call, ref, decodeVars>>

Next == CheckKeys \/ CollectEntry \/ CheckCount \/ SortAndChoose \/ Interpolate \/ ToInteger

Spec == Init /\ [][Next]_vars

----------------------------------------------------------------------------
(* The Fraction class, under every sequence of its operations.             *)

MaxOperand == 3
MaxNum == 12

Operands == {Fraction(n, d) : n \in -MaxOperand..MaxOperand, d \in 1..MaxOperand}

\* let result = new Fraction(0n, 1n)
InitFraction ==
    /\ pc = "secret"
    /\ f0 = Fraction(0, 1)
    /\ call = [op |-> "new", num |-> 0, den |-> 1]
    /\ chosen = <<>>
    /\ secret = None
    /\ exit = None
    /\ ref = None
    /\ valueStr = None /\ baseStr = None /\ decoded = None
    /\ data = None /\ ki = 0 /\ entries = <<>>

\* what a Fraction operation leaves: the new Fraction, or the Error thrown
Outcome(r) ==
    IF IsError(r)
    THEN pc' = "exit" /\ exit' = Uncaught(r.error) /\ f0' = f0
    ELSE /\ Abs(r.num) <= MaxNum /\ r.den <= MaxNum
         /\ pc' = pc /\ exit' = exit /\ f0' = r

New ==
    /\ pc = "secret" /\ call # None
    /\ \E num, den \in -MaxOperand..MaxOperand :
         /\ Outcome(Fraction(num, den))
         /\ call' = [op |-> "new", num |-> num, den |-> den]
    /\ UNCHANGED <<chosen, secret, ref, decodeVars, mainVars>>

Add ==
    /\ pc = "secret" /\ call # None
    /\ \E other \in Operands :
         /\ Outcome(add(f0, other))
         /\ call' = [op |-> "add", this |-> f0, other |-> other]
    /\ UNCHANGED <<chosen, secret, ref, decodeVars, mainVars>>

Sub ==
    /\ pc = "secret" /\ call # None
    /\ \E other \in Operands :
         /\ Outcome(sub(f0, other))
         /\ call' = [op |-> "sub", this |-> f0, other |-> other]
    /\ UNCHANGED <<chosen, secret, ref, decodeVars, mainVars>>

Mul ==
    /\ pc = "secret" /\ call # None
    /\ \E other \in Operands :
         /\ Outcome(mul(f0, other))
         /\ call' = [op |-> "mul", this |-> f0, other |-> other]
    /\ UNCHANGED <<chosen, secret, ref, decodeVars, mainVars>>

Div ==
    /\ pc = "secret" /\ call # None
    /\ \E other \in Operands :
         /\ Outcome(div(f0, other))
         /\ call' = [op |-> "div", this |-> f0, other |-> other]
    /\ UNCHANGED <<chosen, secret, ref, decodeVars, mainVars>>

NextFraction == New \/ Add \/ Sub \/ Mul \/ Div \/ ToInteger

SpecFraction == InitFraction /\ [][NextFraction]_vars

----------------------------------------------------------------------------
(* decodeValueToBigInt, on value strings over an alphabet and on the       *)
(* renderings of integers.                                                 *)

MaxLen == 3
MaxN == 50

\* '0', '1', '9', 'a', 'Z', ' ', '-' and the KELVIN SIGN
Alphabet == {48, 49, 57, 97, 90, 32, 45, 8490}

Strings(len) == UNION {[1..n -> Alphabet] : n \in 0..len}

\* "2", "10", "11", "36", "2.0", " 2", and "37", "1", "", "-2", "2.5", "a"
BaseStrings ==
    {<<50>>, <<49, 48>>, <<49, 49>>, <<51, 54>>, <<50, 46, 48>>, <<32, 50>>,
     <<51, 55>>, <<49>>, <<>>, <<45, 50>>, <<50, 46, 53>>, <<97>>}

\* 36^2 and 36^3 with their predecessors, and the largest integer checked
LargeValues == {1295, 1296, 46655, 46656, 2147483647}

\* the digit d of a rendering: 0-9, then a-z (97 is 'a')
DigitChar(d) == IF d < 10 THEN 48 + d ELSE 97 + (d - 10)

\* the reference rendering of n >= 0 in base b, most significant digit first
RECURSIVE Render(_, _)
Render(n, b) ==
    IF n < b THEN <<DigitChar(n)>>
    ELSE Append(Render(n \div b, b), DigitChar(n % b))

InitDecode ==
    /\ pc = "decode"
    /\ \/ /\ valueStr \in Strings(MaxLen)
          /\ baseStr \in BaseStrings
          /\ ref = None
       \/ \E n \in (0..MaxN) \cup LargeValues, b \in 2..36 :
            /\ valueStr = Render(n, b)
            /\ baseStr = Render(b, 10)
            /\ ref = [n |-> n, b |-> b]
    /\ decoded = None
    /\ data = None /\ ki = 0 /\ entries = <<>>
    /\ chosen = <<>> /\ f0 = None /\ secret = None
    /\ exit = None /\ call = None

\* decodeValueToBigInt(valueStr, baseStr)
Decode ==
    /\ pc = "decode"
    /\ decoded' = decodeValueToBigInt(valueStr, baseStr)
    /\ pc' = IF IsError(decoded') THEN "thrown" ELSE "returned"
    /\ UNCHANGED <<valueStr, baseStr, mainVars, chosen, f0, secret, exit, call, ref>>

NextDecode == Decode

SpecDecode == InitDecode /\ [][NextDecode]_vars

----------------------------------------------------------------------------

Rendered == "n" \in DOMAIN ref

\* C3: the rendering of n >= 0 in a base b of 2..36 decodes to n.
C3_DecodeRoundTrip ==
    (pc # "decode" /\ Rendered) => decoded = Return(ref.n)

\* 2^31 - 1, of six digits in base 36 with letters among them, was decoded
C3_Witness ==
    /\ pc = "returned" /\ Rendered
    /\ ref.n = 2147483647 /\ ref.b = 36
    /\ Len(valueStr) = 6 /\ \E i \in 1..6 : valueStr[i] >= 97

\* C4: with a supported base, a value that is empty once trimmed makes the
\* decoding throw; it does not return 0.
C4_EmptyValueThrows ==
    (pc # "decode" /\ SupportedBase(ToNumber(baseStr)) /\ trim(valueStr) = <<>>)
        => (pc = "thrown" /\ decoded.error = "Invalid digit in value")

IsAlphanumeric(c) ==
    (c >= 48 /\ c <= 57) \/ (c >= 97 /\ c <= 122) \/ (c >= 65 /\ c <= 90)

\* the place of a character in 0-9 a-z, less one
DigitOf(c) == (CHOOSE d \in 0..35 : DigitChar(d) = c)

Offending(c, base) == ~IsAlphanumeric(c) \/ DigitOf(c) >= base

\* C9: a base that is not an integer of 2..36 throws "Unsupported base",
\* whatever the value. Otherwise the leftmost offending character of the
\* trimmed value in lower case decides: "Invalid digit in value" for a
\* character that is not alphanumeric, "Digit not valid for base" for a digit
\* that is not below the base; and the decoding returns exactly when no
\* character offends.
C9_LeftmostOffenderDecides ==
    pc # "decode" =>
        LET base == ToNumber(baseStr)
            s == toLowerCase(trim(valueStr))
            bad == {i \in 1..Len(s) : Offending(s[i], base.val)}
            first == CHOOSE i \in bad : \A j \in bad : i <= j
        IN  IF ~(base.integer /\ base.val \in 2..36)
            THEN decoded = [error |-> "Unsupported base", base |-> baseStr]
            ELSE IF bad = {} THEN pc = "returned"
            ELSE IF ~IsAlphanumeric(s[first])
                 THEN decoded = [error |-> "Invalid digit in value", ch |-> s[first]]
                 ELSE decoded = [error |-> "Digit not valid for base",
                                 ch |-> s[first], base |-> base.val]

\* "Z-9" in base 10: the digit out of range is named, not the '-' after it
C9_Witness ==
    /\ pc = "thrown"
    /\ valueStr = <<90, 45, 57>> /\ baseStr = <<49, 48>>
    /\ decoded = [error |-> "Digit not valid for base", ch |-> 122, base |-> 10]

Divides(d, n) == Abs(n) % d = 0

\* lowest terms, by the definition: no d > 1 divides both
LowestTerms(f) ==
    /\ f.den > 0
    /\ \A d \in 2..f.den : ~(Divides(d, f.num) /\ Divides(d, f.den))

\* C2: the Fraction left by the constructor, add, sub, mul or div has a
\* positive denominator and is in lowest terms, zero being 0/1; an operation
\* that throws leaves no new Fraction, and construction with the denominator
\* 0 throws "Denominator zero".
C2_FractionNormalized ==
    call # None =>
        /\ LowestTerms(f0)
        /\ (f0.num = 0 => f0.den = 1)
        /\ (call.op = "new" /\ call.den = 0)
               => (pc = "exit" /\ exit = Uncaught("Denominator zero"))

\* a division by a negative Fraction has left a negative value, which had to
\* be reduced and its sign moved to the numerator
C2_Witness ==
    /\ call # None /\ pc = "secret"
    /\ call.op = "div" /\ call.other.num < -1 /\ call.this.num > 1
    /\ f0.num < 0 /\ f0.den > 1
    /\ call.this.den * call.other.num # -f0.den

\* the integer a string of decimal digits, with an optional '-', stands for
RECURSIVE DecimalValue(_)
DecimalValue(s) ==
    IF s = <<>> THEN 0
    ELSE IF Head(s) = 45 THEN -DecimalValue(Tail(s))
    ELSE 10 * DecimalValue(SubSeq(s, 1, Len(s) - 1)) + (s[Len(s)] - 48)

IsIntegerValue(f) == \E z \in -Abs(f.num)..Abs(f.num) : z * f.den = f.num

\* C5: toIntegerStringIfExact returns the decimal string of the value of the
\* Fraction when that value is an integer, which is when den = 1 and the
\* value is num; otherwise it throws "Result is not integer" and nothing is
\* printed: no rounded or truncated value is returned.
C5_ExactIntegerOrThrows ==
    (pc = "exit" /\ f0 # None /\ ~IsUncaught(exit))
        => IF IsIntegerValue(f0)
           THEN /\ f0.den = 1
                /\ exit = [stdout |-> secret, code |-> 0]
                /\ DecimalValue(secret) * f0.den = f0.num
           ELSE /\ f0.den # 1
                /\ exit = CaughtError("Result is not integer")
                /\ secret = None

\* -7/3, left by a subtraction, has been refused
C5_Witness ==
    /\ pc = "exit" /\ f0 # None /\ ~IsUncaught(exit)
    /\ call # None /\ call.op = "sub"
    /\ f0 = [num |-> -7, den |-> 3]
    /\ exit = CaughtError("Result is not integer")

DistinctX(pts) == \A i, j \in 1..Len(pts) : i # j => pts[i].x # pts[j].x

Sampled == "poly" \in DOMAIN ref

\* C1: k points with pairwise distinct x sampled from an integer polynomial
\* P with k coefficients (degree at most k-1) interpolate at 0 to the
\* Fraction P(0)/1, P(0) being the constant term.
C1_RecoversConstantTerm ==
    (pc # "try" /\ Sampled /\ DistinctX(chosen))
        => f0 = [num |-> ref.poly[1], den |-> 1]

\* three points of a polynomial of degree 2 with a nonzero constant term, one
\* of them at a negative x and one at x = 0, have been interpolated
C1_Witness ==
    /\ pc = "secret" /\ Sampled /\ DistinctX(chosen)
    /\ Len(chosen) = 3 /\ ref.poly[3] # 0 /\ ref.poly[1] # 0
    /\ \E i, j \in 1..3 : chosen[i].x < 0 /\ chosen[j].x = 0

\* C6: two points with the same x, wherever they are and whatever the y
\* values, make lagrangeAtZero throw "Duplicate x values encountered": no
\* Fraction is returned and "Denominator zero" is never what is thrown.
C6_DuplicateXThrows ==
    (pc # "try" /\ Len(chosen) >= 2 /\ ~DistinctX(chosen))
        => /\ pc = "exit"
           /\ exit = CaughtError("Duplicate x values encountered")
           /\ f0 = None

\* the duplicates are the last two of three points, at x = 0 with y = 0
C6_Witness ==
    /\ pc = "exit" /\ Len(chosen) = 3
    /\ chosen[1].x # 0
    /\ chosen[2] = Point(0, 0) /\ chosen[3] = Point(0, 0)

IndexPermutations(n) == {p \in [1..n -> 1..n] : \A i, j \in 1..n : i # j => p[i] # p[j]}

\* C10: every permutation of points with pairwise distinct x interpolates to
\* the same Fraction, numerator and denominator.
C10_OrderIndependent ==
    (pc = "secret" /\ DistinctX(chosen))
        => \A p \in IndexPermutations(Len(chosen)) :
               lagrangeAtZero([i \in 1..Len(chosen) |-> chosen[p[i]]]) = f0

\* three points, not in ascending x order, whose value at 0 is not an integer
C10_Witness ==
    /\ pc = "secret" /\ DistinctX(chosen) /\ Len(chosen) = 3
    /\ chosen[1].x > chosen[2].x
    /\ f0.den > 1

----------------------------------------------------------------------------

KeysValid ==
    /\ data.keys # None
    /\ data.keys.n.integer /\ data.keys.k.integer
    /\ data.keys.k.val >= 1

HasBaseAndValue(prop) == {"base", "value"} \subseteq DOMAIN prop.obj

Converts(prop) ==
    /\ ~IsError(BigIntOf(prop.key))
    /\ ~IsError(decodeValueToBigInt(prop.obj.value, prop.obj.base))

\* the entries of the input that carry a base and a value: a set, which has
\* no order
Candidates == {p \in {data.props[i] : i \in 1..Len(data.props)} : HasBaseAndValue(p)}

\* the points the candidates decode to, each with its key
DecodedPoints ==
    {[x |-> BigIntOf(p.key).value,
      y |-> decodeValueToBigInt(p.obj.value, p.obj.base).value,
      rawKey |-> p.key] : p \in Candidates}

\* the i-th smallest x of the points of pts, counted with repetitions
NthSmallestX(pts, i) ==
    CHOOSE v \in {p.x : p \in pts} :
        /\ Cardinality({p \in pts : p.x < v}) < i
        /\ i <= Cardinality({p \in pts : p.x <= v})

\* C7: the points passed to lagrangeAtZero are exactly k of the decoded
\* points, in ascending order of x; no point left out has a smaller x than
\* one that is passed; and the x values passed are the k smallest of the set
\* of decoded points, whatever the order of the entries in the input.
C7_SmallestKAscending ==
    (pc \in {"try", "secret"} \/ (pc = "exit" /\ chosen # <<>>)) =>
        LET k == data.keys.k.val
            passed == {entries[i] : i \in 1..k}
        IN  /\ Len(chosen) = k
            /\ \A i \in 1..k : chosen[i] = Point(entries[i].x, entries[i].y)
            /\ Cardinality(passed) = k /\ passed \subseteq DecodedPoints
            /\ \A i \in 1..(k - 1) : chosen[i].x <= chosen[i + 1].x
            /\ \A p \in passed, q \in DecodedPoints \ passed : p.x <= q.x
            /\ \A i \in 1..k : chosen[i].x = NthSmallestX(DecodedPoints, i)

\* two of three points were passed, and the one with the smallest x was the
\* last of Object.keys, the first key of the input being "2"
C7_Witness ==
    /\ pc = "try"
    /\ data.keys.k.val = 2 /\ Len(entries) = 3
    /\ data.props[1].key = <<50>>
    /\ ObjectKeys(data.props)[3].key = <<45, 49>>
    /\ chosen[1].x = -1 /\ chosen[2].x = 1

\* the candidates that convert: the key by BigInt, the value by
\* decodeValueToBigInt
Usable == {p \in Candidates : Converts(p)}

\* the candidates whose value decodes
Decodable ==
    {p \in Candidates : ~IsError(decodeValueToBigInt(p.obj.value, p.obj.base))}

\* C8, as claimed: with every key an integer, fewer than k entries that carry
\* a base and a value and decode make the run end with "Not enough points
\* provided".
C8_FewUsableIsNotEnough ==
    (/\ pc = "exit" /\ KeysValid
     /\ \A p \in Candidates : ~IsError(BigIntOf(p.key))
     /\ Cardinality(Decodable) < data.keys.k.val)
        => exit = NotEnoughPoints(Cardinality(Decodable), data.keys.k.val)

\* the first property in the order of Object.keys that carries a base and a
\* value and does not convert
FirstFailing ==
    LET props == ObjectKeys(data.props)
        failing == {i \in 1..Len(props) : HasBaseAndValue(props[i]) /\ ~Converts(props[i])}
    IN  props[CHOOSE i \in failing : \A j \in failing : i <= j]

ErrorOf(prop) ==
    IF IsError(BigIntOf(prop.key)) THEN BigIntOf(prop.key).error
    ELSE decodeValueToBigInt(prop.obj.value, prop.obj.base).error

\* C8, amended: with keys.n and keys.k integers and k >= 1, an entry with a
\* base and a value that does not convert ends the run with the Error of the
\* conversion, whatever the count; when all of them convert, the run ends
\* with "Not enough points provided" exactly when they are fewer than k, with
\* no point chosen, nothing interpolated and nothing printed, whatever the n
\* declared.
C8_FewCollectedIsNotEnough ==
    (pc = "exit" /\ KeysValid) =>
        LET k == data.keys.k.val
            count == Cardinality(Candidates)
        IN  IF Usable # Candidates
            THEN exit = Uncaught(ErrorOf(FirstFailing)) /\ chosen = <<>> /\ f0 = None
            ELSE IF count < k
                 THEN /\ exit = NotEnoughPoints(count, k)
                      /\ chosen = <<>> /\ f0 = None /\ secret = None
                 ELSE Len(chosen) = k /\ "have" \notin DOMAIN exit

\* one point for k = 2, of two entries, with n = 4 declared
C8_Witness ==
    /\ pc = "exit" /\ KeysValid
    /\ data.keys.n.val = 4 /\ data.keys.k.val = 2
    /\ Len(data.props) = 2 /\ Cardinality(Candidates) = 1
    /\ exit = NotEnoughPoints(1, 2)

====
